---- MODULE Spec2Model ----
(***************************************************************************)
(* Advent of Code 2024.  Day 5, the page-ordering programs:                *)
(*   part 1 (day_05_part_1_solution.py): sum of the middle pages of the    *)
(*           updates that follow the ordering rules;                       *)
(*   part 2 (day_05_part_2_solution.py): repair of the updates that do     *)
(*           not, and the sum of the middle pages of the repaired ones.    *)
(*                                                                         *)
(* A page is the text between two commas of an update line: a sequence of  *)
(* decimal digits.  An update is the sequence of its pages (the result of  *)
(* update.split(",")), a rule the pair of its two pages (the result of     *)
(* rule.split("|")).  Python indices are 0-based and kept so; sequences    *)
(* of the model are 1-based, so pages[i] of the source is pages[i + 1].    *)
(*                                                                         *)
(* Three more programs have a specification of their own, each with its    *)
(* own variable: the reading of the day 5 file (ReaderSpec), day 1's       *)
(* calculate_similarity_score (Day01Spec) and day 6's patrol (Day06Spec).  *)
(* CycleSpec is part 2's solve on rule lists that can form cycles,         *)
(* TotalOrderSpec part 2's solve on rule lists that order every two pages, *)
(* Day06FairSpec the patrol with its loop kept running.                    *)
(***************************************************************************)
EXTENDS Integers, Sequences, FiniteSets, TLC

VARIABLES
    prog,                \* 1: part 1's solve, 2: part 2's solve
    ordering_rules,      \* the rule lines, in file order
    updates,             \* the update lines, in file order
    pc,                  \* position in solve
    idx,                 \* 0-based position of the running for loop
    printed_updates,     \* part 1: the updates that follow the rules
    incorrect_updates,   \* part 2: the updates that do not
    incorrect_update,    \* part 2: the loop variable of the repair loop
    corrected_updates,   \* part 2: the repaired updates
    middle_page_numbers, \* both: the middle pages extracted so far
    result,              \* both: the value solve returns
    history,             \* history variable: the values incorrect_update had
                         \* before each move of the running while loop
    reader,              \* day 5: a run of read_ordering_rules and read_updates
    day01,               \* day 1, part 2: a run of calculate_similarity_score
    day06                \* day 6, part 1: a run of solve (the guard's patrol)

vars == <<prog, ordering_rules, updates, pc, idx, printed_updates,
          incorrect_updates, incorrect_update, corrected_updates,
          middle_page_numbers, result, history, reader, day01, day06>>

(***************************************************************************)
(* Bounds of the generated inputs.                                         *)
(***************************************************************************)
MaxRules == 2
MaxLen == 3
MaxUpdates == 2

(***************************************************************************)
(* Text and numbers.                                                       *)
(***************************************************************************)
Range(s) == {s[k] : k \in 1..Len(s)}

In(x, s) == \E k \in 1..Len(s) : s[k] = x

\* int(text) for a text of decimal digits: leading zeros are accepted.
RECURSIVE ParseInt(_)
ParseInt(text) ==
    IF Len(text) = 0 THEN 0
    ELSE 10 * ParseInt(SubSeq(text, 1, Len(text) - 1)) + text[Len(text)]

\* str(n) for n >= 0: the decimal digits of n, no leading zero.
RECURSIVE FormatInt(_)
FormatInt(n) ==
    IF n < 10 THEN <<n>> ELSE Append(FormatInt(n \div 10), n % 10)

\* list.index(x): the 0-based position of the first occurrence.
IndexOf(s, x) == (CHOOSE k \in 1..Len(s) : s[k] = x /\ \A j \in 1..(k - 1) : s[j] # x) - 1

\* list.count(v)
Count(s, v) == Cardinality({k \in 1..Len(s) : s[k] = v})

\* sum(numbers)
RECURSIVE Sum(_)
Sum(s) == IF Len(s) = 0 THEN 0 ELSE s[1] + Sum(Tail(s))


(***************************************************************************)
(* Part 1's functions.                                                     *)
(***************************************************************************)
\* Fault seeded for C16: the page itself counts as already checked,
\* checked_pages = pages[: pages.index(page) + 1].
p1_check_rules_including_current(update, rules) ==
    LET pages == update IN
    \A p \in 1..Len(pages) :
        LET page == pages[p]
            checked_pages == SubSeq(pages, 1, IndexOf(pages, page) + 1)
        IN  \A r \in 1..Len(rules) :
                LET rule_parts == rules[r] IN
                ~(/\ rule_parts[1] = page
                  /\ In(rule_parts[2], pages)
                  /\ In(rule_parts[2], checked_pages))

\* Fault seeded for C7: the rule is read backwards (after|before).
p1_check_rules_reversed(update, rules) ==
    LET pages == update IN
    \A p \in 1..Len(pages) :
        \A r \in 1..Len(rules) :
            ~(/\ rules[r][2] = pages[p]
              /\ In(rules[r][1], pages)
              /\ In(rules[r][1], SubSeq(pages, 1, p - 1)))

\* Fault seeded for C1: the rule's second page is looked for only in the page
\* just before the current one, not in all of checked_pages.
p1_check_rules_previous_only(update, rules) ==
    LET pages == update IN
    \A p \in 1..Len(pages) :
        \A r \in 1..Len(rules) :
            ~(/\ rules[r][1] = pages[p]
              /\ In(rules[r][2], pages)
              /\ p > 1
              /\ rules[r][2] = pages[p - 1])

\* check_rules of part 1: the scan over the pages, each against every rule,
\* with checked_pages the pages before the current one.
p1_check_rules(update, rules) ==
    LET pages == update IN
    \A p \in 1..Len(pages) :
        LET page == pages[p]
            checked_pages == SubSeq(pages, 1, p - 1)
        IN  \A r \in 1..Len(rules) :
                LET rule_parts == rules[r] IN
                ~(/\ rule_parts[1] = page
                  /\ In(rule_parts[2], pages)
                  /\ In(rule_parts[2], checked_pages))

\* Fault seeded for C6: the index before the middle, pages[len(pages) // 2 - 1]
\* (an index of -1 is Python's last item).
p1_extract_before_middle(update) ==
    LET pages == update
        middle_index == Len(pages) \div 2 - 1
    IN  ParseInt(pages[IF middle_index < 0 THEN Len(pages) + middle_index + 1
                       ELSE middle_index + 1])

\* extract_middle_number of part 1: int(pages[len(pages) // 2]).
p1_extract_middle_number(update) ==
    LET pages == update
        middle_index == Len(pages) \div 2
    IN  ParseInt(pages[middle_index + 1])

(***************************************************************************)
(* Part 2's functions.                                                     *)
(***************************************************************************)
\* Fault seeded for C22: a rule of the current page fails the update, wherever
\* (and whether) the rule's second page occurs.
check_rules_any_rule_of_page(update, rules) ==
    LET pages == update IN
    \A p \in 1..Len(pages) :
        \A r \in 1..Len(rules) : rules[r][1] # pages[p]

\* Fault seeded for C8: the test "rule_parts[1] in checked_pages" is left out.
check_rules_ignoring_checked(update, rules) ==
    LET pages == update IN
    \A p \in 1..Len(pages) :
        \A r \in 1..Len(rules) :
            ~(rules[r][1] = pages[p] /\ In(rules[r][2], pages))

\* check_rules of part 2: the same scan as part 1's.
check_rules(update, rules) ==
    LET pages == update IN
    \A p \in 1..Len(pages) :
        LET page == pages[p]
            checked_pages == SubSeq(pages, 1, p - 1)
        IN  \A r \in 1..Len(rules) :
                LET rule_parts == rules[r] IN
                ~(/\ rule_parts[1] = page
                  /\ In(rule_parts[2], pages)
                  /\ In(rule_parts[2], checked_pages))

\* list(map(int, update.split(",")))
update_string_to_list(update) == [k \in 1..Len(update) |-> ParseInt(update[k])]

\* ",".join(map(str, update))
update_list_to_string(update) == [k \in 1..Len(update) |-> FormatInt(update[k])]

\* The value find_rule_violation returns when it raises RuntimeError.
NoViolation == <<-1, -1>>

\* Fault seeded for C23: the rule's second page is looked for only in the page
\* just before the current one, not in all of checked_pages.
find_rule_violation_previous_only(update, rules) ==
    LET pages == update
        Hit(p, r) == /\ rules[r][1] = pages[p]
                     /\ p > 1
                     /\ rules[r][2] = pages[p - 1]
        HitAt(p) == \E r \in 1..Len(rules) : Hit(p, r)
    IN  IF \E p \in 1..Len(pages) : HitAt(p)
        THEN LET p == CHOOSE p \in 1..Len(pages) :
                          HitAt(p) /\ \A p0 \in 1..(p - 1) : ~HitAt(p0)
             IN  <<IndexOf(pages, pages[p]), IndexOf(pages, pages[p - 1])>>
        ELSE NoViolation

\* Fault seeded for C19: the two indices are returned in the other order.
find_rule_violation_swapped(update, rules) ==
    LET pages == update
        Hit(p, r) == /\ rules[r][1] = pages[p]
                     /\ In(rules[r][2], pages)
                     /\ In(rules[r][2], SubSeq(pages, 1, p - 1))
        HitAt(p) == \E r \in 1..Len(rules) : Hit(p, r)
    IN  IF \E p \in 1..Len(pages) : HitAt(p)
        THEN LET p == CHOOSE p \in 1..Len(pages) :
                          HitAt(p) /\ \A p0 \in 1..(p - 1) : ~HitAt(p0)
                 r == CHOOSE r \in 1..Len(rules) :
                          Hit(p, r) /\ \A r0 \in 1..(r - 1) : ~Hit(p, r0)
                 checked_pages == SubSeq(pages, 1, p - 1)
                 index_of_violated_page == IndexOf(checked_pages, rules[r][2])
             IN  <<index_of_violated_page, IndexOf(pages, pages[p])>>
        ELSE NoViolation

\* find_rule_violation: the first page, in scan order, and for it the first
\* rule, in rule order, whose second page is among the checked pages.  The
\* result is (pages.index(page), checked_pages.index(rule_parts[1])).
find_rule_violation(update, rules) ==
    LET pages == update
        Hit(p, r) == /\ rules[r][1] = pages[p]
                     /\ In(rules[r][2], pages)
                     /\ In(rules[r][2], SubSeq(pages, 1, p - 1))
        HitAt(p) == \E r \in 1..Len(rules) : Hit(p, r)
    IN  IF \E p \in 1..Len(pages) : HitAt(p)
        THEN LET p == CHOOSE p \in 1..Len(pages) :
                          HitAt(p) /\ \A p0 \in 1..(p - 1) : ~HitAt(p0)
                 r == CHOOSE r \in 1..Len(rules) :
                          Hit(p, r) /\ \A r0 \in 1..(r - 1) : ~Hit(p, r0)
                 checked_pages == SubSeq(pages, 1, p - 1)
                 index_of_violated_page == IndexOf(checked_pages, rules[r][2])
             IN  <<IndexOf(pages, pages[p]), index_of_violated_page>>
        ELSE NoViolation

\* list.pop(i) for 0 <= i < len: the list without the item at i.
ListPop(list, i) == SubSeq(list, 1, i) \o SubSeq(list, i + 2, Len(list))

\* Fault seeded for C4: list[i] = x, which overwrites the item at i.
ListOverwrite(list, i, x) ==
    [k \in 1..Len(list) |-> IF k = i + 1 THEN x ELSE list[k]]

\* list.insert(i, x) for i >= 0: before the item at i, at the end if i > len.
ListInsert(list, i, x) ==
    LET at == IF i > Len(list) THEN Len(list) ELSE i
    IN  SubSeq(list, 1, at) \o <<x>> \o SubSeq(list, at + 1, Len(list))

\* Fault seeded for C3: the page is put back after the page it violated.
move_page_number_after(update, index_of_origin, index_to_move) ==
    LET page_number == update[index_of_origin + 1]
    IN  ListInsert(ListPop(update, index_of_origin), index_to_move + 1, page_number)

\* Fault seeded for C20: the two pages change places.
move_page_number_swap(update, index_of_origin, index_to_move) ==
    [k \in 1..Len(update) |->
        IF k = index_of_origin + 1 THEN update[index_to_move + 1]
        ELSE IF k = index_to_move + 1 THEN update[index_of_origin + 1]
        ELSE update[k]]

\* move_page_number_left: pop at index_of_origin, insert at index_to_move.
move_page_number_left(update, index_of_origin, index_to_move) ==
    LET page_number == update[index_of_origin + 1]
    IN  ListInsert(ListPop(update, index_of_origin), index_to_move, page_number)

\* Fault seeded for C11: the lower of the two middle pages, (len(pages) - 1) // 2.
extract_lower_middle(update) ==
    LET pages == update
        middle_index == (Len(pages) - 1) \div 2
    IN  ParseInt(pages[middle_index + 1])

\* Fault seeded for C5: the index before the middle, pages[len(pages) // 2 - 1].
extract_before_middle(update) ==
    LET pages == update
        middle_index == Len(pages) \div 2 - 1
    IN  ParseInt(pages[IF middle_index < 0 THEN Len(pages) + middle_index + 1
                       ELSE middle_index + 1])

\* extract_middle_number of part 2: int(pages[len(pages) // 2]).
extract_middle_number(update) ==
    LET pages == update
        middle_index == Len(pages) \div 2
    IN  ParseInt(pages[middle_index + 1])

(***************************************************************************)
(* The inputs.  A file is its rule lines and its update lines.  Three      *)
(* families: one update of up to MaxLen pages under up to MaxRules rules;  *)
(* several updates of distinct pages under one rule or a full chain; and   *)
(* the example of the puzzle text as the specification quotes it.          *)
(***************************************************************************)
\* The value of the variables of a program the specification does not run.
NotRun == <<>>

SeqsOf(S, lo, hi) == UNION {[1..k -> S] : k \in lo..hi}

\* Pages written the way str prints them, and one written with a leading zero.
CanonicalPages == {<<1>>, <<2>>, <<3>>}
Pages == CanonicalPages \cup {<<0, 1>>}

Rule(before, after) == <<before, after>>

\* The rules of the generated files: every rule between two different canonical
\* pages, one rule of a page with itself, one rule of the zero-padded page.
RulePool ==
    {r \in CanonicalPages \X CanonicalPages : r[1] # r[2]}
        \cup {Rule(<<1>>, <<1>>), Rule(<<0, 1>>, <<2>>)}

InitSingle ==
    /\ prog = 2
    /\ ordering_rules \in SeqsOf(RulePool, 0, MaxRules)
    /\ updates \in {<<u>> : u \in SeqsOf(Pages, 1, MaxLen)}

DistinctUpdates ==
    {u \in SeqsOf(CanonicalPages, 1, Cardinality(CanonicalPages)) :
        \A i, j \in 1..Len(u) : i # j => u[i] # u[j]}

BatchRules ==
    { <<Rule(<<1>>, <<2>>), Rule(<<2>>, <<3>>), Rule(<<1>>, <<3>>)>>,
      <<Rule(<<3>>, <<1>>)>> }

InitBatch ==
    /\ prog \in {1, 2}
    /\ ordering_rules \in BatchRules
    /\ updates \in SeqsOf(DistinctUpdates, 1, MaxUpdates)

P(n) == FormatInt(n)

ScenarioRules ==
    << Rule(P(47), P(53)), Rule(P(97), P(13)), Rule(P(97), P(61)), Rule(P(97), P(47)),
       Rule(P(75), P(29)), Rule(P(61), P(13)), Rule(P(75), P(53)), Rule(P(29), P(13)),
       Rule(P(97), P(53)), Rule(P(61), P(53)), Rule(P(97), P(29)), Rule(P(47), P(61)),
       Rule(P(75), P(61)), Rule(P(47), P(29)), Rule(P(75), P(47)), Rule(P(61), P(29)),
       Rule(P(53), P(13)) >>

ScenarioUpdates ==
    << <<P(75), P(47), P(61), P(53), P(29)>>,
       <<P(97), P(61), P(53), P(29), P(13)>>,
       <<P(75), P(29), P(13)>>,
       <<P(75), P(97), P(47), P(61), P(53)>>,
       <<P(61), P(13), P(29)>>,
       <<P(97), P(13), P(75), P(29), P(47)>> >>

InitScenario ==
    /\ prog \in {1, 2}
    /\ ordering_rules = ScenarioRules
    /\ updates = ScenarioUpdates

Init ==
    /\ InitSingle \/ InitBatch \/ InitScenario
    /\ pc = IF prog = 1 THEN "p1_filter" ELSE "classify"
    /\ idx = 0
    /\ printed_updates = <<>>
    /\ incorrect_updates = <<>>
    /\ incorrect_update = <<>>
    /\ corrected_updates = <<>>
    /\ middle_page_numbers = <<>>
    /\ result = -1
    /\ history = <<>>
    /\ reader = NotRun /\ day01 = NotRun /\ day06 = NotRun

(***************************************************************************)
(* Part 1's solve.                                                         *)
(***************************************************************************)
\* Fault seeded for C10: every update is appended, whatever check_rules says.
P1FilterAll ==
    /\ pc = "p1_filter"
    /\ IF idx < Len(updates)
       THEN /\ printed_updates' = Append(printed_updates, updates[idx + 1])
            /\ idx' = idx + 1
            /\ pc' = pc
       ELSE /\ pc' = "p1_extract"
            /\ idx' = 0
            /\ UNCHANGED printed_updates
    /\ UNCHANGED <<prog, ordering_rules, updates, incorrect_updates, incorrect_update,
                   corrected_updates, middle_page_numbers, result, history>>
    /\ UNCHANGED <<reader, day01, day06>>

\* for update in updates: if check_rules(...): printed_updates.append(update)
P1Filter ==
    /\ pc = "p1_filter"
    /\ IF idx < Len(updates)
       THEN LET update == updates[idx + 1] IN
            /\ printed_updates' =
                   IF p1_check_rules(update, ordering_rules)
                   THEN Append(printed_updates, update)
                   ELSE printed_updates
            /\ idx' = idx + 1
            /\ pc' = pc
       ELSE /\ pc' = "p1_extract"
            /\ idx' = 0
            /\ UNCHANGED printed_updates
    /\ UNCHANGED <<prog, ordering_rules, updates, incorrect_updates, incorrect_update,
                   corrected_updates, middle_page_numbers, result, history>>
    /\ UNCHANGED <<reader, day01, day06>>

\* for printed_update in printed_updates: middle_page_numbers.append(...)
P1Extract ==
    /\ pc = "p1_extract"
    /\ IF idx < Len(printed_updates)
       THEN LET printed_update == printed_updates[idx + 1] IN
            /\ middle_page_numbers' =
                   Append(middle_page_numbers, p1_extract_middle_number(printed_update))
            /\ idx' = idx + 1
            /\ pc' = pc
       ELSE /\ pc' = "p1_return"
            /\ UNCHANGED <<idx, middle_page_numbers>>
    /\ UNCHANGED <<prog, ordering_rules, updates, printed_updates, incorrect_updates,
                   incorrect_update, corrected_updates, result, history>>
    /\ UNCHANGED <<reader, day01, day06>>

\* return sum(middle_page_numbers)
P1Return ==
    /\ pc = "p1_return"
    /\ result' = Sum(middle_page_numbers)
    /\ pc' = "done"
    /\ UNCHANGED <<prog, ordering_rules, updates, idx, printed_updates, incorrect_updates,
                   incorrect_update, corrected_updates, middle_page_numbers, history>>
    /\ UNCHANGED <<reader, day01, day06>>

(***************************************************************************)
(* Part 2's solve.                                                         *)
(***************************************************************************)
\* Fault seeded for C9: every update is handed to the repair loop, so that the
\* valid ones are counted too.
ClassifyAll ==
    /\ pc = "classify"
    /\ IF idx < Len(updates)
       THEN /\ incorrect_updates' = Append(incorrect_updates, updates[idx + 1])
            /\ idx' = idx + 1
            /\ pc' = pc
       ELSE /\ pc' = "repair_for"
            /\ idx' = 0
            /\ UNCHANGED incorrect_updates
    /\ UNCHANGED <<prog, ordering_rules, updates, printed_updates, incorrect_update,
                   corrected_updates, middle_page_numbers, result, history>>
    /\ UNCHANGED <<reader, day01, day06>>

\* Fault seeded for C15: the loop stops at the first update that follows the
\* rules (break), so what is repaired depends on the order of the lines.
ClassifyUntilValid ==
    /\ pc = "classify"
    /\ IF idx < Len(updates) /\ ~check_rules(updates[idx + 1], ordering_rules)
       THEN /\ incorrect_updates' = Append(incorrect_updates, updates[idx + 1])
            /\ idx' = idx + 1
            /\ pc' = pc
       ELSE /\ pc' = "repair_for"
            /\ idx' = 0
            /\ UNCHANGED incorrect_updates
    /\ UNCHANGED <<prog, ordering_rules, updates, printed_updates, incorrect_update,
                   corrected_updates, middle_page_numbers, result, history>>
    /\ UNCHANGED <<reader, day01, day06>>

\* for update in updates: if not check_rules(...): incorrect_updates.append(update)
Classify ==
    /\ pc = "classify"
    /\ IF idx < Len(updates)
       THEN LET update == updates[idx + 1] IN
            /\ incorrect_updates' =
                   IF ~check_rules(update, ordering_rules)
                   THEN Append(incorrect_updates, update)
                   ELSE incorrect_updates
            /\ idx' = idx + 1
            /\ pc' = pc
       ELSE /\ pc' = "repair_for"
            /\ idx' = 0
            /\ UNCHANGED incorrect_updates
    /\ UNCHANGED <<prog, ordering_rules, updates, printed_updates, incorrect_update,
                   corrected_updates, middle_page_numbers, result, history>>
    /\ UNCHANGED <<reader, day01, day06>>

\* The history of the running while loop, with the value a move starts from
\* added; a value the loop has had before is not added again, which keeps the
\* history of a loop that runs forever finite.
Record(trail, update) == IF In(update, trail) THEN trail ELSE Append(trail, update)

\* for incorrect_update in incorrect_updates:
RepairFor ==
    /\ pc = "repair_for"
    /\ IF idx < Len(incorrect_updates)
       THEN /\ incorrect_update' = incorrect_updates[idx + 1]
            /\ pc' = "repair_while"
            /\ idx' = idx
            /\ history' = <<>>
       ELSE /\ pc' = "extract"
            /\ idx' = 0
            /\ UNCHANGED <<incorrect_update, history>>
    /\ UNCHANGED <<prog, ordering_rules, updates, printed_updates, incorrect_updates,
                   corrected_updates, middle_page_numbers, result>>
    /\ UNCHANGED <<reader, day01, day06>>

\* Fault seeded for C2: "if" in place of "while": one move, then the append.
RepairOnce ==
    /\ pc = "repair_while"
    /\ LET found == find_rule_violation(incorrect_update, ordering_rules)
           moved == IF found = NoViolation THEN incorrect_update
                    ELSE update_list_to_string(
                             move_page_number_left(update_string_to_list(incorrect_update),
                                                   found[1], found[2]))
       IN  /\ incorrect_update' = moved
           /\ corrected_updates' = Append(corrected_updates, moved)
    /\ idx' = idx + 1
    /\ pc' = "repair_for"
    /\ UNCHANGED <<prog, ordering_rules, updates, printed_updates, incorrect_updates,
                   middle_page_numbers, result, history>>
    /\ UNCHANGED <<reader, day01, day06>>

\* while not check_rules(incorrect_update, ordering_rules): one move;
\* after the loop, corrected_updates.append(incorrect_update)
RepairWhile ==
    /\ pc = "repair_while"
    /\ IF ~check_rules(incorrect_update, ordering_rules)
       THEN LET found == find_rule_violation(incorrect_update, ordering_rules)
                page_index == found[1]
                index_of_violated_page == found[2]
                update_as_list == update_string_to_list(incorrect_update)
            IN  IF found = NoViolation
                THEN /\ pc' = "RuntimeError"
                     /\ UNCHANGED <<idx, incorrect_update, corrected_updates, history>>
                ELSE /\ incorrect_update' = update_list_to_string(
                            move_page_number_left(update_as_list, page_index,
                                                  index_of_violated_page))
                     /\ history' = Record(history, incorrect_update)
                     /\ UNCHANGED <<pc, idx, corrected_updates>>
       ELSE /\ corrected_updates' = Append(corrected_updates, incorrect_update)
            /\ idx' = idx + 1
            /\ pc' = "repair_for"
            /\ UNCHANGED <<incorrect_update, history>>
    /\ UNCHANGED <<prog, ordering_rules, updates, printed_updates, incorrect_updates,
                   middle_page_numbers, result>>
    /\ UNCHANGED <<reader, day01, day06>>

\* The while loop of solve run on one update by itself: the update it appends
\* to corrected_updates (defined when the loop ends).
RECURSIVE Repaired(_, _)
Repaired(update, rules) ==
    IF ~check_rules(update, rules)
    THEN LET found == find_rule_violation(update, rules)
             update_as_list == update_string_to_list(update)
         IN  IF found = NoViolation THEN update
             ELSE Repaired(update_list_to_string(
                               move_page_number_left(update_as_list, found[1], found[2])),
                           rules)
    ELSE update

\* for corrected_update in corrected_updates: middle_page_numbers.append(...)
Extract ==
    /\ pc = "extract"
    /\ IF idx < Len(corrected_updates)
       THEN LET corrected_update == corrected_updates[idx + 1] IN
            /\ middle_page_numbers' =
                   Append(middle_page_numbers, extract_middle_number(corrected_update))
            /\ idx' = idx + 1
            /\ pc' = pc
       ELSE /\ pc' = "return"
            /\ UNCHANGED <<idx, middle_page_numbers>>
    /\ UNCHANGED <<prog, ordering_rules, updates, printed_updates, incorrect_updates,
                   incorrect_update, corrected_updates, result, history>>
    /\ UNCHANGED <<reader, day01, day06>>

\* return sum(middle_page_numbers)
Return ==
    /\ pc = "return"
    /\ result' = Sum(middle_page_numbers)
    /\ pc' = "done"
    /\ UNCHANGED <<prog, ordering_rules, updates, idx, printed_updates, incorrect_updates,
                   incorrect_update, corrected_updates, middle_page_numbers, history>>
    /\ UNCHANGED <<reader, day01, day06>>

Next ==
    \/ P1Filter
    \/ P1Extract
    \/ P1Return
    \/ Classify
    \/ RepairFor
    \/ RepairWhile
    \/ Extract
    \/ Return

Spec == Init /\ [][Next]_vars

(***************************************************************************)
(* Part 2's solve alone, on files whose rules can form cycles: a pair of   *)
(* opposite rules, three rules in a ring (with MaxRules >= 3), a rule of a *)
(* page with itself, and opposite rules written with the zero-padded page. *)
(***************************************************************************)
CyclePool ==
    { Rule(<<1>>, <<2>>), Rule(<<2>>, <<1>>), Rule(<<2>>, <<3>>), Rule(<<3>>, <<1>>),
      Rule(<<1>>, <<1>>), Rule(<<0, 1>>, <<2>>), Rule(<<2>>, <<0, 1>>) }

InitCycles ==
    /\ prog = 2
    /\ ordering_rules \in SeqsOf(CyclePool, 0, MaxRules)
    /\ updates \in {<<u>> : u \in SeqsOf(Pages, 1, MaxLen)}
    /\ pc = "classify"
    /\ idx = 0
    /\ printed_updates = <<>>
    /\ incorrect_updates = <<>>
    /\ incorrect_update = <<>>
    /\ corrected_updates = <<>>
    /\ middle_page_numbers = <<>>
    /\ result = -1
    /\ history = <<>>
    /\ reader = NotRun /\ day01 = NotRun /\ day06 = NotRun

NextPart2 ==
    \/ Classify
    \/ RepairFor
    \/ RepairWhile
    \/ Extract
    \/ Return

CycleSpec == InitCycles /\ [][NextPart2]_vars

(***************************************************************************)
(* Part 2's solve on rule lists that order every pair of the three         *)
(* canonical pages, in every order of the list (those that close a ring    *)
(* included), and on the lists of the zero-padded page with a rule of the  *)
(* page it is printed as.                                                  *)
(***************************************************************************)
FullRules ==
    LET pairs == {pair \in SUBSET CanonicalPages : Cardinality(pair) = 2}
    IN  { R \in [1..Cardinality(pairs) -> CanonicalPages \X CanonicalPages] :
            \A pair \in pairs :
                Cardinality({r \in 1..Len(R) : {R[r][1], R[r][2]} = pair}) = 1 }

PaddedRules ==
    { <<Rule(<<0, 1>>, <<2>>)>>,
      <<Rule(<<0, 1>>, <<2>>), Rule(<<2>>, <<1>>)>>,
      <<Rule(<<2>>, <<1>>), Rule(<<0, 1>>, <<2>>)>> }

InitTotalOrder ==
    /\ prog = 2
    /\ ordering_rules \in FullRules \cup PaddedRules
    /\ updates \in {<<u>> : u \in SeqsOf(Pages, 1, MaxLen)}
    /\ pc = "classify"
    /\ idx = 0
    /\ printed_updates = <<>>
    /\ incorrect_updates = <<>>
    /\ incorrect_update = <<>>
    /\ corrected_updates = <<>>
    /\ middle_page_numbers = <<>>
    /\ result = -1
    /\ history = <<>>
    /\ reader = NotRun /\ day01 = NotRun /\ day06 = NotRun

TotalOrderSpec == InitTotalOrder /\ [][NextPart2]_vars

(***************************************************************************)
(* Day 5, reading the file: read_ordering_rules and read_updates, as solve *)
(* calls them.  Here a line is the sequence of its characters, and the     *)
(* file is the list puzzle.splitlines() gives.                             *)
(***************************************************************************)
MaxLines == 3

\* The lines 1|2, 2|1, the empty line, 1,2, 2,1 and 2.
LinePool ==
    { <<"1", "|", "2">>, <<"2", "|", "1">>, <<>>,
      <<"1", ",", "2">>, <<"2", ",", "1">>, <<"2">> }

UnboundLocalError == <<"UnboundLocalError">>

\* read_ordering_rules: the lines up to the first one without "|" and the index
\* after that line's; when every line has a "|" (or there is no line) the loop
\* ends without binding rules_end_index and line 50 raises UnboundLocalError.
read_ordering_rules(lines) ==
    LET without == {k \in 1..Len(lines) : ~In("|", lines[k])}
    IN  IF without = {} THEN UnboundLocalError
        ELSE LET k == CHOOSE k \in without : \A j \in without : k <= j
                 ordering_rules_ == SubSeq(lines, 1, k - 1)
                 rules_end_index == IndexOf(lines, lines[k])
                 update_start_index == rules_end_index + 1
             IN  <<ordering_rules_, update_start_index>>

\* Fault seeded for C14: the slice starts one line early, lines[start_index - 1:].
read_updates_from_boundary(lines, start_index) ==
    SubSeq(lines, start_index, Len(lines))

\* read_updates: lines[start_index:].
read_updates(lines, start_index) ==
    SubSeq(lines, start_index + 1, Len(lines))

SolveNotRun ==
    /\ prog = NotRun /\ ordering_rules = NotRun /\ updates = NotRun
    /\ pc = NotRun /\ idx = NotRun /\ printed_updates = NotRun
    /\ incorrect_updates = NotRun /\ incorrect_update = NotRun
    /\ corrected_updates = NotRun /\ middle_page_numbers = NotRun
    /\ result = NotRun /\ history = NotRun

solve_vars ==
    <<prog, ordering_rules, updates, pc, idx, printed_updates, incorrect_updates,
      incorrect_update, corrected_updates, middle_page_numbers, result, history>>

InitReader ==
    /\ reader \in { [pc |-> "read_ordering_rules", lines |-> lines,
                      ordering_rules |-> <<>>, updates_start_index |-> -1,
                      updates |-> <<>>] : lines \in SeqsOf(LinePool, 0, MaxLines) }
    /\ SolveNotRun /\ day01 = NotRun /\ day06 = NotRun

\* ordering_rules, updates_start_index = read_ordering_rules(input_content)
ReadOrderingRules ==
    /\ reader.pc = "read_ordering_rules"
    /\ LET returned == read_ordering_rules(reader.lines)
       IN  reader' = IF returned = UnboundLocalError
                     THEN [reader EXCEPT !.pc = "UnboundLocalError"]
                     ELSE [reader EXCEPT !.pc = "read_updates",
                                         !.ordering_rules = returned[1],
                                         !.updates_start_index = returned[2]]
    /\ UNCHANGED <<solve_vars, day01, day06>>

\* updates = read_updates(input_content, updates_start_index)
ReadUpdates ==
    /\ reader.pc = "read_updates"
    /\ reader' = [reader EXCEPT !.pc = "read",
                                !.updates = read_updates(reader.lines,
                                                         reader.updates_start_index)]
    /\ UNCHANGED <<solve_vars, day01, day06>>

NextReader ==
    \/ ReadOrderingRules
    \/ ReadUpdates

ReaderSpec == InitReader /\ [][NextReader]_vars

(***************************************************************************)
(* Day 1, part 2 (day_01_part_2_solution.py and part_2_solution.py, the    *)
(* same function in both): calculate_similarity_score on two lists of      *)
(* integers.  list(set(list_1)) has no defined order: the loop takes the   *)
(* numbers of the set in any order.                                        *)
(***************************************************************************)
MaxListLen == 2
MaxNumber == 2

InitDay01 ==
    /\ day01 \in { [pc |-> "unique", list_1 |-> l1, list_2 |-> l2,
                     list_1_unique |-> {}, similarity_score |-> 0] :
                        l1 \in SeqsOf(1..MaxNumber, 0, MaxListLen),
                        l2 \in SeqsOf(1..MaxNumber, 0, MaxListLen) }
    /\ SolveNotRun /\ reader = NotRun /\ day06 = NotRun

\* list_1_unique = list(set(list_1)); similarity_score = 0
Unique ==
    /\ day01.pc = "unique"
    /\ day01' = [day01 EXCEPT !.pc = "for",
                              !.list_1_unique = Range(day01.list_1),
                              !.similarity_score = 0]
    /\ UNCHANGED <<solve_vars, reader, day06>>

\* for number in list_1_unique: if number in list_2:
\*     similarity_score += number * list_2.count(number)
\* (list_1_unique holds the numbers the loop has not taken yet)
Accumulate ==
    /\ day01.pc = "for"
    /\ \E number \in day01.list_1_unique :
           day01' = [day01 EXCEPT
                        !.list_1_unique = @ \ {number},
                        !.similarity_score =
                            IF In(number, day01.list_2)
                            THEN @ + number * Count(day01.list_2, number)
                            ELSE @]
    /\ UNCHANGED <<solve_vars, reader, day06>>

\* return similarity_score
ReturnScore ==
    /\ day01.pc = "for"
    /\ day01.list_1_unique = {}
    /\ day01' = [day01 EXCEPT !.pc = "returned"]
    /\ UNCHANGED <<solve_vars, reader, day06>>

NextDay01 ==
    \/ Unique
    \/ Accumulate
    \/ ReturnScore

Day01Spec == InitDay01 /\ [][NextDay01]_vars

(***************************************************************************)
(* Day 6, part 1 (day_06_part_1_solution.py): the guard's patrol.  The     *)
(* room map is the list of its rows, a row the list of its characters;     *)
(* rows and columns are counted from 0 as in the source, so the source's   *)
(* room_map[r][c] is room_map[r + 1][c + 1] here.                          *)
(***************************************************************************)
MaxSide == 3
MaxObstacles == 2

\* The subsets of S of at most k elements.
RECURSIVE UpTo(_, _)
UpTo(S, k) ==
    IF k = 0 THEN {{}}
    ELSE LET smaller == UpTo(S, k - 1)
         IN  smaller \cup {A \cup {x} : A \in smaller, x \in S}

\* A map of the given size: the guard, the obstacles, the cells that hold an X
\* before the patrol starts, and free cells.
RoomMap(rows, columns, guard, facing, obstacles, marked) ==
    [r \in 1..rows |-> [c \in 1..columns |->
        IF <<r, c>> = guard THEN facing
        ELSE IF <<r, c>> \in obstacles THEN "#"
        ELSE IF <<r, c>> \in marked THEN "X"
        ELSE "."]]

\* Four obstacles that close a circuit around the guard: the one above it, the
\* one to the right of the cell w columns to its right, the one below the cell
\* h rows under that, and the one to the left of the cell h rows under the guard.
\* With h = w = 0 the guard has an obstacle on each of its four sides.
Circuit(guard, h, w) ==
    { <<guard[1] - 1, guard[2]>>, <<guard[1], guard[2] + w + 1>>,
      <<guard[1] + h + 1, guard[2] + w>>, <<guard[1] + h, guard[2] - 1>> }

\* The number of calls of move_guard after which the model stops counting them:
\* one more than the number of (row, column, direction) triples of the map.
StepsCounted(room_map) == Len(room_map) * Len(room_map[1]) * 4 + 1

\* The inputs: a rectangle of at most MaxSide rows and columns with one guard
\* and either at most MaxObstacles obstacles, or no obstacle and one cell that
\* holds an X, or four obstacles that close a circuit around the guard.
\* (steps, seen and revisited record the run: the calls of move_guard made, the
\* values guard_position had before the present one, and whether
\* guard_position has taken a value it had before.)
InitDay06 ==
    /\ \E rows \in 1..MaxSide, columns \in 1..MaxSide :
       \E guard \in (1..rows) \X (1..columns), facing \in {"^", "v", "<", ">"} :
           LET others == ((1..rows) \X (1..columns)) \ {guard}
               Start(room_map) ==
                   [pc |-> "find", input |-> room_map, room_map |-> room_map,
                    room_dimensions |-> <<>>, guard_position |-> <<>>,
                    visited |-> {}, result |-> -1,
                    steps |-> 0, seen |-> {}, revisited |-> FALSE]
           IN  \/ \E obstacles \in UpTo(others, MaxObstacles) :
                     day06 = Start(RoomMap(rows, columns, guard, facing, obstacles, {}))
               \/ \E x \in others :
                     day06 = Start(RoomMap(rows, columns, guard, facing, {}, {x}))
               \/ \E h \in 0..(rows - 3), w \in 0..(columns - 3) :
                     /\ Circuit(guard, h, w) \subseteq others
                     /\ day06 = Start(RoomMap(rows, columns, guard, facing,
                                              Circuit(guard, h, w), {}))
    /\ SolveNotRun /\ reader = NotRun /\ day01 = NotRun

\* get_map_dimensions
get_map_dimensions(room_map) == <<Len(room_map), Len(room_map[1])>>

\* The direction a character of the map stands for; "none" for a character
\* that is not the guard.
Facing(column) ==
    CASE column = "^" -> "up" [] column = "v" -> "down"
      [] column = "<" -> "left" [] column = ">" -> "right"
      [] OTHER -> "none"

\* for row in room_map: for column in row: the two loops from row r, column c
\* on; they return at the first guard character, RuntimeError when the map
\* has none.
RECURSIVE ScanForGuard(_, _, _)
ScanForGuard(room_map, r, c) ==
    IF r > Len(room_map) THEN <<"RuntimeError">>
    ELSE IF c > Len(room_map[r]) THEN ScanForGuard(room_map, r + 1, 1)
    ELSE IF Facing(room_map[r][c]) # "none"
    THEN <<IndexOf(room_map, room_map[r]), IndexOf(room_map[r], room_map[r][c]),
           Facing(room_map[r][c])>>
    ELSE ScanForGuard(room_map, r, c + 1)

\* find_guard_start_position
find_guard_start_position(room_map) == ScanForGuard(room_map, 1, 1)

\* Fault seeded for C18: the cell the guard leaves the map from is not marked.
move_guard_unmarked_exit(room_map, room_dimensions, guard_position) ==
    LET row == guard_position[1]
        column == guard_position[2]
        guard_direction == guard_position[3]
        marked == [room_map EXCEPT ![row + 1][column + 1] = "X"]
        Ahead(r, c, turned) ==
            IF r < 0 \/ r >= room_dimensions[1] \/ c < 0 \/ c >= room_dimensions[2]
            THEN <<room_map, <<row, column, "out">>>>
            ELSE IF marked[r + 1][c + 1] = "#"
            THEN <<marked, <<row, column, turned>>>>
            ELSE <<marked, <<r, c, guard_direction>>>>
    IN  CASE guard_direction = "up" -> Ahead(row - 1, column, "right")
          [] guard_direction = "down" -> Ahead(row + 1, column, "left")
          [] guard_direction = "left" -> Ahead(row, column - 1, "up")
          [] guard_direction = "right" -> Ahead(row, column + 1, "down")
          [] OTHER -> <<marked, <<row, column, "ValueError">>>>

\* Fault seeded for C26: before an obstacle the guard turns to the left.
move_guard_turning_left(room_map, room_dimensions, guard_position) ==
    LET row == guard_position[1]
        column == guard_position[2]
        guard_direction == guard_position[3]
        marked == [room_map EXCEPT ![row + 1][column + 1] = "X"]
        Ahead(r, c, turned) ==
            IF r < 0 \/ r >= room_dimensions[1] \/ c < 0 \/ c >= room_dimensions[2]
            THEN <<marked, <<row, column, "out">>>>
            ELSE IF marked[r + 1][c + 1] = "#"
            THEN <<marked, <<row, column, turned>>>>
            ELSE <<marked, <<r, c, guard_direction>>>>
    IN  CASE guard_direction = "up" -> Ahead(row - 1, column, "left")
          [] guard_direction = "down" -> Ahead(row + 1, column, "right")
          [] guard_direction = "left" -> Ahead(row, column - 1, "down")
          [] guard_direction = "right" -> Ahead(row, column + 1, "up")
          [] OTHER -> <<marked, <<row, column, "ValueError">>>>

\* move_guard: marks the guard's cell, then, by direction: "out" at the edge of
\* the map, a turn to the right before an obstacle, one cell forward otherwise.
\* The result is the map as the call leaves it and the position it returns.
move_guard(room_map, room_dimensions, guard_position) ==
    LET row == guard_position[1]
        column == guard_position[2]
        guard_direction == guard_position[3]
        marked == [room_map EXCEPT ![row + 1][column + 1] = "X"]
    IN  CASE guard_direction = "up" ->
              IF row - 1 < 0 THEN <<marked, <<row, column, "out">>>>
              ELSE IF marked[row][column + 1] = "#"
              THEN <<marked, <<row, column, "right">>>>
              ELSE <<marked, <<row - 1, column, "up">>>>
          [] guard_direction = "down" ->
              IF row + 1 >= room_dimensions[1] THEN <<marked, <<row, column, "out">>>>
              ELSE IF marked[row + 2][column + 1] = "#"
              THEN <<marked, <<row, column, "left">>>>
              ELSE <<marked, <<row + 1, column, "down">>>>
          [] guard_direction = "left" ->
              IF column - 1 < 0 THEN <<marked, <<row, column, "out">>>>
              ELSE IF marked[row + 1][column] = "#"
              THEN <<marked, <<row, column, "up">>>>
              ELSE <<marked, <<row, column - 1, "left">>>>
          [] guard_direction = "right" ->
              IF column + 1 >= room_dimensions[2] THEN <<marked, <<row, column, "out">>>>
              ELSE IF marked[row + 1][column + 2] = "#"
              THEN <<marked, <<row, column, "down">>>>
              ELSE <<marked, <<row, column + 1, "right">>>>
          [] OTHER -> <<marked, <<row, column, "ValueError">>>>

\* count_x: sum(row.count("X") for row in room_map)
count_x(room_map) == Sum([r \in 1..Len(room_map) |-> Count(room_map[r], "X")])

\* room_dimensions = get_map_dimensions(room_map)
\* guard_position = find_guard_start_position(room_map)
FindGuard ==
    /\ day06.pc = "find"
    /\ LET found == find_guard_start_position(day06.room_map)
       IN  day06' = IF found = <<"RuntimeError">>
                    THEN [day06 EXCEPT !.pc = "RuntimeError"]
                    ELSE [day06 EXCEPT !.pc = "while",
                                       !.room_dimensions = get_map_dimensions(day06.room_map),
                                       !.guard_position = found,
                                       !.visited = {<<found[1], found[2]>>}]
    /\ UNCHANGED <<solve_vars, reader, day01>>

\* while guard_position[2] != "out": guard_position = move_guard(...)
\* (visited: the cells guard_position has named)
MoveGuard ==
    /\ day06.pc = "while"
    /\ day06.guard_position[3] # "out"
    /\ LET moved == move_guard(day06.room_map, day06.room_dimensions, day06.guard_position)
       IN  day06' = IF moved[2][3] = "ValueError"
                    THEN [day06 EXCEPT !.pc = "ValueError"]
                    ELSE [day06 EXCEPT !.room_map = moved[1],
                                       !.guard_position = moved[2],
                                       !.visited = @ \cup {<<moved[2][1], moved[2][2]>>},
                                       !.steps = IF @ < StepsCounted(day06.input)
                                                 THEN @ + 1 ELSE @,
                                       !.seen = @ \cup {day06.guard_position},
                                       !.revisited =
                                           @ \/ moved[2] \in day06.seen]
    /\ UNCHANGED <<solve_vars, reader, day01>>

\* Fault seeded for C27: the loop also ends when guard_position takes a value
\* it had before.
CountXWhenRevisited ==
    /\ day06.pc = "while"
    /\ day06.guard_position[3] = "out" \/ day06.revisited
    /\ day06' = [day06 EXCEPT !.pc = "returned", !.result = count_x(day06.room_map)]
    /\ UNCHANGED <<solve_vars, reader, day01>>

\* return count_x(room_map)
CountX ==
    /\ day06.pc = "while"
    /\ day06.guard_position[3] = "out"
    /\ day06' = [day06 EXCEPT !.pc = "returned", !.result = count_x(day06.room_map)]
    /\ UNCHANGED <<solve_vars, reader, day01>>

NextDay06 ==
    \/ FindGuard
    \/ MoveGuard
    \/ CountX

Day06Spec == InitDay06 /\ [][NextDay06]_vars

\* The interpreter keeps running the loop: a step that can be taken is taken.
Day06FairSpec == Day06Spec /\ WF_vars(NextDay06)

(***************************************************************************)
(* Vocabulary of the properties.                                           *)
(***************************************************************************)
\* No positions i < j of S with a rule (S[j], S[i]) in R.
NoInversion(S, R) ==
    ~\E i, j \in 1..Len(S) : i < j /\ \E r \in 1..Len(R) : R[r] = <<S[j], S[i]>>

Middle(S) == S[(Len(S) \div 2) + 1]

\* The same multiset of page texts / of page numbers.
SameTexts(a, b) == Len(a) = Len(b) /\ \A v \in Range(a) \cup Range(b) : Count(a, v) = Count(b, v)

Numbers(S) == [k \in 1..Len(S) |-> ParseInt(S[k])]

SameNumbers(a, b) == SameTexts(Numbers(a), Numbers(b))

DistinctNumbers(S) == \A i, j \in 1..Len(S) : i # j => ParseInt(S[i]) # ParseInt(S[j])

\* The rules, read as pairs of numbers, have no cycle among the numbers of S.
AcyclicOver(S, R) ==
    LET V == Range(Numbers(S))
        E == {<<ParseInt(R[r][1]), ParseInt(R[r][2])>> : r \in 1..Len(R)}
    IN  \A W \in SUBSET V : W # {} => \E w \in W : \A v \in W : <<v, w>> \notin E

InputsAcyclic == \A k \in 1..Len(updates) : AcyclicOver(updates[k], ordering_rules)

InputsDistinct == \A k \in 1..Len(updates) : DistinctNumbers(updates[k])

Invalid(us) == SelectSeq(us, LAMBDA u : ~NoInversion(u, ordering_rules))

Valid(us) == SelectSeq(us, LAMBDA u : NoInversion(u, ordering_rules))

Middles(us) == [k \in 1..Len(us) |-> ParseInt(Middle(us[k]))]

IsScenario == ordering_rules = ScenarioRules /\ updates = ScenarioUpdates

(***************************************************************************)
(* C1: both copies of check_rules return true exactly when the update has  *)
(* no positions i < j with a rule (S[j], S[i]): for every update of the    *)
(* file (looked at when solve starts) and for every value the update       *)
(* under repair takes.                                                     *)
(***************************************************************************)
C1_ValidationCorrect ==
    /\ (idx = 0 /\ pc \in {"p1_filter", "classify"}) =>
        \A k \in 1..Len(updates) :
            /\ p1_check_rules(updates[k], ordering_rules) = NoInversion(updates[k], ordering_rules)
            /\ check_rules(updates[k], ordering_rules) = NoInversion(updates[k], ordering_rules)
    /\ pc = "repair_while" =>
        /\ p1_check_rules(incorrect_update, ordering_rules)
               = NoInversion(incorrect_update, ordering_rules)
        /\ check_rules(incorrect_update, ordering_rules)
               = NoInversion(incorrect_update, ordering_rules)

\* An update whose only inversion is between its first and its last page.
C1_Witness ==
    /\ pc = "repair_while"
    /\ history = <<>>
    /\ \E k \in 1..Len(updates) :
        LET S == updates[k] IN
        /\ Len(S) = 3
        /\ DistinctNumbers(S)
        /\ ~check_rules(S, ordering_rules)
        /\ ~p1_check_rules(S, ordering_rules)
        /\ NoInversion(SubSeq(S, 1, 2), ordering_rules)
        /\ NoInversion(SubSeq(S, 2, 3), ordering_rules)

(***************************************************************************)
(* C2: every update appended to corrected_updates has no positions i < j   *)
(* with a rule requiring the page at j before the page at i.               *)
(***************************************************************************)
C2_CorrectedSatisfyRules ==
    \A k \in 1..Len(corrected_updates) : NoInversion(corrected_updates[k], ordering_rules)

C2_Witness ==
    /\ Len(corrected_updates) > 0
    /\ corrected_updates[1] # incorrect_updates[1]
    /\ Len(corrected_updates[1]) = 3

\* What must not happen to a repair: the loop is back at a value the update
\* had before a move (so it runs forever), RuntimeError is raised, or an update
\* is appended that check_rules rejects or solve returns with an update missing.
RepairFailure ==
    \/ pc = "repair_while" /\ In(incorrect_update, history)
    \/ pc = "RuntimeError"
    \/ \E k \in 1..Len(corrected_updates) : ~check_rules(corrected_updates[k], ordering_rules)
    \/ pc = "done" /\ Len(corrected_updates) # Len(incorrect_updates)

(***************************************************************************)
(* C3, as amended: when the pages of every update are pairwise distinct    *)
(* numbers and the rules have no cycle among the pages of an update, the   *)
(* repair loop never comes back to a value the update had before a move,   *)
(* so it ends after finitely many moves (an update has finitely many       *)
(* orders), and it ends in a state where check_rules returns true.         *)
(* Written as (failure => not the precondition).                           *)
(***************************************************************************)
C3_RepairTerminates ==
    RepairFailure => ~(prog = 2 /\ InputsDistinct /\ InputsAcyclic)

\* A repair that ended after two moves.
C3_Witness ==
    /\ prog = 2 /\ InputsAcyclic /\ InputsDistinct
    /\ pc = "done"
    /\ Len(corrected_updates) = 1
    /\ Len(history) = 2

\* C3 as claimed: for every rule set acyclic over the pages of the update,
\* and every update, the repair loop ends.
C3_Original ==
    RepairFailure => ~(prog = 2 /\ InputsAcyclic)

(***************************************************************************)
(* C4, as amended: after any number of repair steps the update has the     *)
(* length and the multiset of page numbers (pages read as integers) of the *)
(* original update, so its middle index is the original's.                 *)
(***************************************************************************)
C4_RepairPermutes ==
    /\ pc = "repair_while" =>
           /\ SameNumbers(incorrect_update, incorrect_updates[idx + 1])
           /\ Len(incorrect_update) \div 2 = Len(incorrect_updates[idx + 1]) \div 2
    /\ \A k \in 1..Len(corrected_updates) :
           /\ SameNumbers(corrected_updates[k], incorrect_updates[k])
           /\ Len(corrected_updates[k]) \div 2 = Len(incorrect_updates[k]) \div 2

C4_Witness ==
    /\ pc = "repair_while"
    /\ incorrect_update # incorrect_updates[idx + 1]
    /\ ~check_rules(incorrect_update, ordering_rules)

\* C4 as claimed: the update under repair is a permutation of the pages of
\* the original update, none added or removed.
C4_Original ==
    /\ pc = "repair_while" => SameTexts(incorrect_update, incorrect_updates[idx + 1])
    /\ \A k \in 1..Len(corrected_updates) :
           SameTexts(corrected_updates[k], incorrect_updates[k])

(***************************************************************************)
(* C5, as amended: with the 17 rules of Scenario A, part 2 repairs         *)
(* "61,13,29" into "61,29,13" and "97,13,75,29,47" into "97,75,47,29,13",  *)
(* with middles 29 and 47; "75,97,47,61,53" is already valid under these   *)
(* rules (none of the 17 is 97|75), is not repaired and is not counted,    *)
(* and the repair-mode sum over the six sequences is 76.                   *)
(***************************************************************************)
C5_ScenarioRepair ==
    (IsScenario /\ prog = 2 /\ pc = "done") =>
        /\ incorrect_updates = << <<P(61), P(13), P(29)>>,
                                  <<P(97), P(13), P(75), P(29), P(47)>> >>
        /\ corrected_updates = << <<P(61), P(29), P(13)>>,
                                  <<P(97), P(75), P(47), P(29), P(13)>> >>
        /\ middle_page_numbers = <<29, 47>>
        /\ result = 76

C5_Witness == IsScenario /\ prog = 2 /\ pc = "done" /\ Len(corrected_updates) = 2

\* C5 as claimed: three repaired sequences, middles 47, 29, 47, sum 123.
C5_Original ==
    (IsScenario /\ prog = 2 /\ pc = "done") =>
        /\ corrected_updates = << <<P(97), P(75), P(47), P(61), P(53)>>,
                                  <<P(61), P(29), P(13)>>,
                                  <<P(97), P(75), P(47), P(29), P(13)>> >>
        /\ middle_page_numbers = <<47, 29, 47>>
        /\ result = 123

(***************************************************************************)
(* C6, as amended: with the 17 rules of Scenario A, part 1's check_rules   *)
(* returns false for "61,13,29" and "97,13,75,29,47", which are excluded,  *)
(* and true for "75,97,47,61,53" (none of the 17 rules is 97|75), which is *)
(* included with middle 47; the validate-only sum over the six sequences   *)
(* is 190.                                                                 *)
(***************************************************************************)
C6_ScenarioInvalid ==
    (IsScenario /\ prog = 1 /\ pc = "done") =>
        /\ ~p1_check_rules(ScenarioUpdates[5], ordering_rules)
        /\ ~p1_check_rules(ScenarioUpdates[6], ordering_rules)
        /\ p1_check_rules(ScenarioUpdates[4], ordering_rules)
        /\ printed_updates = SubSeq(ScenarioUpdates, 1, 4)
        /\ result = 190

C6_Witness == IsScenario /\ prog = 1 /\ pc = "done" /\ Len(printed_updates) = 4

\* C6 as claimed: the three sequences are invalid and excluded; the sum is 143.
C6_Original ==
    (IsScenario /\ prog = 1 /\ pc = "done") =>
        /\ \A k \in 4..6 : ~p1_check_rules(ScenarioUpdates[k], ordering_rules)
        /\ \A k \in 4..6 : ~In(ScenarioUpdates[k], printed_updates)
        /\ result = 143

(***************************************************************************)
(* C7: with the 17 rules of Scenario A, part 1 accepts "75,47,61,53,29",   *)
(* "97,61,53,29,13" and "75,29,13", and extracts the middles 61, 53, 29.   *)
(***************************************************************************)
C7_ScenarioValid ==
    (IsScenario /\ prog = 1 /\ pc = "p1_return") =>
        /\ \A k \in 1..3 : p1_check_rules(ScenarioUpdates[k], ordering_rules)
        /\ SubSeq(printed_updates, 1, 3) = SubSeq(ScenarioUpdates, 1, 3)
        /\ SubSeq(middle_page_numbers, 1, 3) = <<61, 53, 29>>

C7_Witness ==
    IsScenario /\ prog = 1 /\ pc = "p1_return" /\ Len(middle_page_numbers) >= 3

(***************************************************************************)
(* C8: the repair loop, at its test with an update that has no inversion,  *)
(* makes no move: its next step appends the update, unchanged, to          *)
(* corrected_updates; and an update of the file that has no inversion is   *)
(* never handed to the loop.                                               *)
(***************************************************************************)
C8_ValidUntouched ==
    [][ /\ (pc = "repair_while" /\ NoInversion(incorrect_update, ordering_rules)) =>
              /\ incorrect_update' = incorrect_update
              /\ history' = history
              /\ corrected_updates' = Append(corrected_updates, incorrect_update)
        /\ \A k \in 1..Len(incorrect_updates') :
              ~NoInversion(incorrect_updates'[k], ordering_rules) ]_vars

\* The loop is past its test with a valid update, which it appended.
C8_Witness ==
    /\ pc = "repair_for"
    /\ Len(corrected_updates) > 0
    /\ corrected_updates[Len(corrected_updates)] = incorrect_update
    /\ \E k \in 1..Len(updates) : NoInversion(updates[k], ordering_rules)

(***************************************************************************)
(* C9, as amended: in repair mode the reported sum accumulates the middle  *)
(* page of every sequence that was invalid, taken after its repair; a      *)
(* sequence that was valid originally is not counted.                      *)
(***************************************************************************)
C9_RepairSum ==
    (prog = 2 /\ pc = "done") =>
        /\ Len(corrected_updates) = Len(Invalid(updates))
        /\ \A k \in 1..Len(corrected_updates) :
              /\ NoInversion(corrected_updates[k], ordering_rules)
              /\ SameNumbers(corrected_updates[k], Invalid(updates)[k])
        /\ result = Sum(Middles(corrected_updates))

\* Two updates, the first valid with a middle page, the second repaired.
C9_Witness ==
    /\ prog = 2 /\ pc = "done"
    /\ Len(updates) = 2
    /\ NoInversion(updates[1], ordering_rules)
    /\ ~NoInversion(updates[2], ordering_rules)
    /\ result > 0

\* C9 as claimed: the sum counts every sequence that ends up valid, whether
\* it was valid originally or became valid after repair.
C9_Original ==
    (prog = 2 /\ pc = "done") =>
        result = Sum(Middles(Valid(updates))) + Sum(Middles(corrected_updates))

(***************************************************************************)
(* C10: part 1 reports the sum of the middle pages of the updates for      *)
(* which check_rules is true; an invalid update contributes nothing.       *)
(***************************************************************************)
C10_ValidateOnlySum ==
    (prog = 1 /\ pc = "done") =>
        LET accepted == SelectSeq(updates, LAMBDA u : p1_check_rules(u, ordering_rules))
        IN  /\ printed_updates = accepted
            /\ result = Sum(Middles(accepted))

\* Two updates, one accepted and one skipped.
C10_Witness ==
    /\ prog = 1 /\ pc = "done"
    /\ Len(updates) = 2
    /\ p1_check_rules(updates[1], ordering_rules)
    /\ ~p1_check_rules(updates[2], ordering_rules)
    /\ result > 0

(***************************************************************************)
(* C11: both copies of extract_middle_number return (as an integer) the    *)
(* page at the 0-based index n // 2 of an update of n pages; when n is odd *)
(* that page has as many pages before it as after it.                      *)
(***************************************************************************)
C11_MiddleIndex ==
    \A k \in 1..Len(middle_page_numbers) :
        LET S == IF prog = 1 THEN printed_updates[k] ELSE corrected_updates[k]
            n == Len(S)
        IN  \E i \in 0..(n - 1) :
                /\ 2 * i <= n /\ n < 2 * i + 2
                /\ middle_page_numbers[k] = ParseInt(S[i + 1])
                /\ (n % 2 = 1 => Len(SubSeq(S, 1, i)) = Len(SubSeq(S, i + 2, n)))

\* Part 2 has extracted the middle of an update of two pages and of one of three.
C11_Witness ==
    /\ prog = 2 /\ pc = "done"
    /\ \E j, k \in 1..Len(middle_page_numbers) :
           Len(corrected_updates[j]) = 2 /\ Len(corrected_updates[k]) = 3

(***************************************************************************)
(* C16: an update of one page follows every rule list, the lists that      *)
(* mention its page included, and its middle is (the integer of) that one  *)
(* page: for every update of the file when solve starts, and for what      *)
(* part 1 has kept and extracted of them.                                  *)
(***************************************************************************)
Singles(us) == SelectSeq(us, LAMBDA u : Len(u) = 1)

C16_SingletonValid ==
    /\ (idx = 0 /\ pc \in {"p1_filter", "classify"}) =>
           \A k \in 1..Len(updates) :
               Len(updates[k]) = 1 =>
                   /\ p1_check_rules(updates[k], ordering_rules)
                   /\ p1_extract_middle_number(updates[k]) = ParseInt(updates[k][1])
    /\ (prog = 1 /\ pc \in {"p1_return", "done"}) =>
           /\ Singles(printed_updates) = Singles(updates)
           /\ \A k \in 1..Len(printed_updates) :
                  Len(printed_updates[k]) = 1 =>
                      middle_page_numbers[k] = ParseInt(printed_updates[k][1])

\* Part 1 has kept an update of one page that a rule of the file mentions.
C16_Witness ==
    /\ prog = 1 /\ pc = "done"
    /\ \E k \in 1..Len(printed_updates) :
           /\ Len(printed_updates[k]) = 1
           /\ \E r \in 1..Len(ordering_rules) :
                  printed_updates[k][1] \in {ordering_rules[r][1], ordering_rules[r][2]}

(***************************************************************************)
(* C19: when find_rule_violation reports a violation (p, q) for the update *)
(* under repair S, and the pages of S are pairwise different texts, then   *)
(* p is the smallest position whose page has a rule requiring it to come   *)
(* before an earlier page, q < p, and (S[p], S[q]) is a rule.              *)
(***************************************************************************)
DistinctTexts(S) == \A i, j \in 1..Len(S) : i # j => S[i] # S[j]

\* Position j (0-based) holds a page that a rule puts before an earlier page.
InvertedAt(S, R, j) ==
    \E i \in 0..(j - 1) : \E r \in 1..Len(R) : R[r] = <<S[j + 1], S[i + 1]>>

ViolationDescribed(S, R) ==
    LET found == find_rule_violation(S, R)
        p == found[1]
        q == found[2]
    IN  found # NoViolation =>
            /\ p \in 0..(Len(S) - 1)
            /\ InvertedAt(S, R, p)
            /\ \A j \in 0..(p - 1) : ~InvertedAt(S, R, j)
            /\ 0 <= q /\ q < p
            /\ \E r \in 1..Len(R) : R[r] = <<S[p + 1], S[q + 1]>>

C19_ViolationIndices ==
    (pc = "repair_while" /\ DistinctTexts(incorrect_update)) =>
        ViolationDescribed(incorrect_update, ordering_rules)

\* After a move the update is still out of order, and the violation found is
\* between its last page and its first.
C19_Witness ==
    /\ pc = "repair_while" /\ Len(history) >= 1
    /\ DistinctTexts(incorrect_update)
    /\ find_rule_violation(incorrect_update, ordering_rules) = <<2, 0>>

\* The statement for all updates, repeated pages included.
C19_Original ==
    pc = "repair_while" => ViolationDescribed(incorrect_update, ordering_rules)

(***************************************************************************)
(* C20: one move of the repair loop on an update of pairwise different     *)
(* pages, read as integers: the moved page is at index_of_violated_page,   *)
(* the page it violated right after it; the pages below that index and     *)
(* above page_index stay where they were; the other pages keep their       *)
(* order.                                                                  *)
(***************************************************************************)
Without(S, i) == SubSeq(S, 1, i) \o SubSeq(S, i + 2, Len(S))

MoveFrame(S, T, sourceIndex, targetIndex) ==
    /\ Len(T) = Len(S)
    /\ T[targetIndex + 1] = S[sourceIndex + 1]
    /\ T[targetIndex + 2] = S[targetIndex + 1]
    /\ \A i \in 0..(Len(S) - 1) : (i < targetIndex \/ i > sourceIndex) => T[i + 1] = S[i + 1]
    /\ Without(T, targetIndex) = Without(S, sourceIndex)

\* A step of the while loop that moves a page.
IsMove ==
    /\ pc = "repair_while" /\ pc' = "repair_while"
    /\ ~check_rules(incorrect_update, ordering_rules)

MoveFramed ==
    LET found == find_rule_violation(incorrect_update, ordering_rules)
    IN  MoveFrame(Numbers(incorrect_update), Numbers(incorrect_update'), found[1], found[2])

C20_RepairStepFrame ==
    [][(IsMove /\ DistinctTexts(incorrect_update)) => MoveFramed]_vars

\* A move has taken the last of three different pages to the front.
C20_Witness ==
    /\ pc = "repair_while" /\ Len(history) >= 1
    /\ DistinctTexts(history[Len(history)])
    /\ Len(incorrect_update) = 3
    /\ find_rule_violation(history[Len(history)], ordering_rules) = <<2, 0>>
    /\ incorrect_update[1] = history[Len(history)][3]

\* The statement for all updates, repeated pages included.
C20_Original == [][IsMove => MoveFramed]_vars

(***************************************************************************)
(* C12: when the rules contain a cycle of two or more different pages,     *)
(* all of them pages of the update as str(int(.)) prints them, the repair  *)
(* loop on that update never ends: at every test of the while loop the     *)
(* update is out of order, the update is never appended to                 *)
(* corrected_updates, and no RuntimeError ends the loop either.            *)
(***************************************************************************)
\* The graph of the rules over the pages V has a cycle: a non-empty set of pages
\* each with a rule to a page of the set (to another page, if Proper).
HasCycle(V, R, Proper) ==
    LET E == {<<R[r][1], R[r][2]>> : r \in 1..Len(R)}
    IN  \E W \in SUBSET V :
            /\ W # {}
            /\ \A w \in W : \E v \in W : <<w, v>> \in E /\ (Proper => v # w)

Printed(S) == Range(update_list_to_string(update_string_to_list(S)))

CycleOfPrinted(S) == HasCycle(Printed(S), ordering_rules, TRUE)

LoopNeverEnds(Cyclic(_)) ==
    /\ pc = "repair_while" =>
           (Cyclic(incorrect_updates[idx + 1]) => ~check_rules(incorrect_update, ordering_rules))
    /\ pc = "RuntimeError" => ~Cyclic(incorrect_updates[idx + 1])
    /\ \A k \in 1..Len(corrected_updates) : ~Cyclic(incorrect_updates[k])

C12_CycleNeverRepaired == LoopNeverEnds(CycleOfPrinted)

\* The loop is back at a value the update had before, under a cycle.
C12_Witness ==
    /\ pc = "repair_while" /\ Len(history) >= 2
    /\ CycleOfPrinted(incorrect_updates[idx + 1])
    /\ In(incorrect_update, history)

\* The statement for every cycle among the pages as the file writes them, a
\* rule of a page with itself included.
CycleOfWritten(S) == HasCycle(Range(S), ordering_rules, FALSE)

C12_Original == LoopNeverEnds(CycleOfWritten)

(***************************************************************************)
(* C15: what solve returns depends on the updates of the file as a         *)
(* multiset only, not on their order: it is the sum, over the different    *)
(* update lines, of the number of times the line occurs times what the     *)
(* line contributes by itself (part 1: its middle if it follows the rules; *)
(* part 2: the middle of its repaired form if it does not).  Every         *)
(* repaired update is what the loop gives for that update alone.           *)
(***************************************************************************)
\* The sum of the values of a function with a finite domain.
RECURSIVE SumOver(_)
SumOver(f) ==
    IF DOMAIN f = {} THEN 0
    ELSE LET x == CHOOSE x \in DOMAIN f : TRUE
         IN  f[x] + SumOver([y \in DOMAIN f \ {x} |-> f[y]])

AloneInPart1(u) ==
    IF p1_check_rules(u, ordering_rules) THEN p1_extract_middle_number(u) ELSE 0

AloneInPart2(u) ==
    IF check_rules(u, ordering_rules) THEN 0
    ELSE extract_middle_number(Repaired(u, ordering_rules))

OfTheBag(Alone(_)) ==
    SumOver([u \in Range(updates) |-> Count(updates, u) * Alone(u)])

C15_OrderIndependent ==
    pc = "done" =>
        /\ prog = 1 => result = OfTheBag(AloneInPart1)
        /\ prog = 2 =>
               /\ result = OfTheBag(AloneInPart2)
               /\ \A k \in 1..Len(corrected_updates) :
                      corrected_updates[k] = Repaired(incorrect_updates[k], ordering_rules)

\* Part 2 has returned for a file of an update in order followed by one that
\* is not, whose swap is another file of the specification.
C15_Witness ==
    /\ prog = 2 /\ pc = "done" /\ Len(updates) = 2
    /\ check_rules(updates[1], ordering_rules)
    /\ ~check_rules(updates[2], ordering_rules)
    /\ result > 0

(***************************************************************************)
(* C13: read_ordering_rules returns as rules exactly the longest run of    *)
(* lines, from the first line on, that all contain "|": for every file,    *)
(* the call returns and the rules are that run.                            *)
(***************************************************************************)
\* The longest prefix of the lines whose lines all contain "|".
LeadingRun(lines) ==
    LET m == CHOOSE m \in 0..Len(lines) :
                 /\ \A k \in 1..m : In("|", lines[k])
                 /\ m < Len(lines) => ~In("|", lines[m + 1])
    IN  SubSeq(lines, 1, m)

C13_LeadingRun ==
    reader.pc # "read_ordering_rules" =>
        /\ reader.pc # "UnboundLocalError"
        /\ reader.ordering_rules = LeadingRun(reader.lines)

(***************************************************************************)
(* C14: the index read_ordering_rules returns, and read_updates starts     *)
(* from, is the index after the first line without "|" (the number of      *)
(* rule lines plus one): that line is skipped, and the updates are the     *)
(* lines after it.                                                         *)
(***************************************************************************)
C14_UpdatesAfterBoundary ==
    LET rule_lines == Len(LeadingRun(reader.lines)) IN
    /\ reader.pc \in {"read_updates", "read"} =>
           reader.updates_start_index = rule_lines + 1
    /\ reader.pc = "read" =>
           /\ Len(reader.updates) = Len(reader.lines) - (rule_lines + 1)
           /\ \A k \in 1..Len(reader.updates) :
                  reader.updates[k] = reader.lines[rule_lines + 1 + k]

\* A file of a rule, an empty line and an update has been read.
C14_Witness ==
    /\ reader.pc = "read"
    /\ Len(reader.ordering_rules) >= 1
    /\ reader.lines[Len(reader.ordering_rules) + 1] = <<>>
    /\ Len(reader.updates) >= 1

\* The statement as made: the index is that of the line after the last rule line.
C14_Original ==
    reader.pc \in {"read_updates", "read"} =>
        reader.updates_start_index = Len(LeadingRun(reader.lines))

(***************************************************************************)
(* C17: calculate_similarity_score returns the sum, over the positions of  *)
(* the first list (every occurrence of a number counted), of the number    *)
(* there times the number of times it appears in the second list.          *)
(***************************************************************************)
C17_SimilarityScore ==
    day01.pc = "returned" =>
        day01.similarity_score =
            SumOver([k \in 1..Len(day01.list_1) |->
                        day01.list_1[k] * Count(day01.list_2, day01.list_1[k])])

(***************************************************************************)
(* C18: when the patrol has ended with direction "out" and the map held no *)
(* X before it started, solve returns the number of different cells the    *)
(* guard stood on, from its start cell to the cell it left the map from.   *)
(***************************************************************************)
NoX(room_map) == \A r \in 1..Len(room_map) : ~In("X", room_map[r])

C18_CountIsVisited ==
    (day06.pc = "returned" /\ NoX(day06.input)) =>
        /\ day06.guard_position[3] = "out"
        /\ day06.result = Cardinality(day06.visited)
        /\ <<day06.guard_position[1], day06.guard_position[2]>> \in day06.visited

\* The guard has stood on another cell, come back to its start cell and left
\* the map from there.
C18_Witness ==
    /\ day06.pc = "returned" /\ NoX(day06.input)
    /\ day06.guard_position =
           <<find_guard_start_position(day06.input)[1],
             find_guard_start_position(day06.input)[2], "out">>
    /\ day06.result >= 2

(***************************************************************************)
(* C23: find_rule_violation returns an index pair exactly when check_rules *)
(* returns false, for every update of the file and every value the update  *)
(* under repair takes after any number of moves; so the repair loop never  *)
(* raises the RuntimeError of find_rule_violation.                         *)
(***************************************************************************)
Agree(S, R) == (find_rule_violation(S, R) # NoViolation) = ~check_rules(S, R)

C23_NoRuntimeError ==
    /\ pc # "RuntimeError"
    /\ (idx = 0 /\ pc = "classify") =>
           \A k \in 1..Len(updates) : Agree(updates[k], ordering_rules)
    /\ pc = "repair_while" => Agree(incorrect_update, ordering_rules)

\* After two moves the update is still out of order and a violation is found.
C23_Witness ==
    /\ pc = "repair_while" /\ Len(history) >= 2
    /\ ~check_rules(incorrect_update, ordering_rules)
    /\ find_rule_violation(incorrect_update, ordering_rules) # NoViolation

(***************************************************************************)
(* C22: only the rules whose two pages are both pages of the update count. *)
(* check_rules and find_rule_violation give the same with the other rules  *)
(* removed (so adding or removing such rules changes nothing), an update   *)
(* none of whose pages is in a rule is in order, and, when the update of   *)
(* the file is written as str(int(.)) prints it, every step of its repair  *)
(* is the same with the rules that do not apply to the update of the file  *)
(* removed, so the repaired update is the same.                            *)
(***************************************************************************)
Applies(rule, S) == In(rule[1], S) /\ In(rule[2], S)

Relevant(S, R) == SelectSeq(R, LAMBDA rule : Applies(rule, S))

SameUnder(S, R, Q) ==
    /\ check_rules(S, R) = check_rules(S, Q)
    /\ find_rule_violation(S, R) = find_rule_violation(S, Q)

AsPrinted(S) == update_list_to_string(update_string_to_list(S)) = S

RepairIgnoresOtherRules(Written(_)) ==
    pc = "repair_while" =>
        LET original == incorrect_updates[idx + 1]
        IN  Written(original) =>
                SameUnder(incorrect_update, ordering_rules,
                          Relevant(original, ordering_rules))

C22_AbsentItemsIrrelevant ==
    /\ (idx = 0 /\ pc = "classify") =>
           \A k \in 1..Len(updates) :
               LET S == updates[k] IN
               /\ SameUnder(S, ordering_rules, Relevant(S, ordering_rules))
               /\ (\A r \in 1..Len(ordering_rules) :
                       ~In(ordering_rules[r][1], S) /\ ~In(ordering_rules[r][2], S))
                   => check_rules(S, ordering_rules)
    /\ pc = "repair_while" =>
           SameUnder(incorrect_update, ordering_rules,
                     Relevant(incorrect_update, ordering_rules))
    /\ RepairIgnoresOtherRules(AsPrinted)

\* A move has been made on an update under a rule of a page it does not have.
C22_Witness ==
    /\ pc = "repair_while" /\ Len(history) >= 1
    /\ AsPrinted(incorrect_updates[idx + 1])
    /\ \E r \in 1..Len(ordering_rules) :
           ~Applies(ordering_rules[r], incorrect_updates[idx + 1])
    /\ \E r \in 1..Len(ordering_rules) :
           Applies(ordering_rules[r], incorrect_updates[idx + 1])

\* The statement for every update, however its pages are written.
AnyWriting(S) == TRUE

C22_Original == RepairIgnoresOtherRules(AnyWriting)

(***************************************************************************)
(* C21: when the pages of the update under repair are pairwise different   *)
(* and written as str(int(.)) prints them, and the rules order every pair  *)
(* of them without a cycle, every move of the repair loop leaves strictly  *)
(* fewer out-of-order pairs (positions i < j with a rule (S[j], S[i])).    *)
(***************************************************************************)
OutOfOrderPairs(S, R) ==
    Cardinality({ij \in (1..Len(S)) \X (1..Len(S)) :
                    /\ ij[1] < ij[2]
                    /\ \E r \in 1..Len(R) : R[r] = <<S[ij[2]], S[ij[1]]>>})

\* Every pair of different pages of S is ordered by a rule, without a cycle.
FullAcyclic(S, R) ==
    /\ \A a, b \in Range(S) :
           a # b => \E r \in 1..Len(R) : R[r] = <<a, b>> \/ R[r] = <<b, a>>
    /\ ~HasCycle(Range(S), R, FALSE)

MoveDecreases ==
    OutOfOrderPairs(incorrect_update', ordering_rules)
        < OutOfOrderPairs(incorrect_update, ordering_rules)

C21_MoveDecreasesInversions ==
    [][(/\ IsMove
        /\ FullAcyclic(incorrect_update, ordering_rules)
        /\ DistinctTexts(incorrect_update)
        /\ AsPrinted(incorrect_update)) => MoveDecreases]_vars

\* A move on three pages has left fewer pairs out of order, and not yet none.
C21_Witness ==
    /\ pc = "repair_while" /\ Len(history) >= 1
    /\ LET before == history[Len(history)] IN
           /\ Len(before) = 3
           /\ FullAcyclic(before, ordering_rules)
           /\ DistinctTexts(before) /\ AsPrinted(before)
           /\ OutOfOrderPairs(incorrect_update, ordering_rules)
                  < OutOfOrderPairs(before, ordering_rules)
           /\ OutOfOrderPairs(incorrect_update, ordering_rules) >= 1

\* The statement for every update, repeated and zero-padded pages included.
C21_Original ==
    [][(IsMove /\ FullAcyclic(incorrect_update, ordering_rules)) => MoveDecreases]_vars

(***************************************************************************)
(* C24: when the pages of an update of the file are pairwise different and *)
(* written as str(int(.)) prints them, and the rules order every pair of   *)
(* them without a cycle, the repaired update is the one arrangement of     *)
(* those pages that has no pair out of order: it depends on the set of     *)
(* pages and the set of rules only, not on the order the update or the     *)
(* rule list came in.                                                      *)
(***************************************************************************)
Arrangements(S) == {T \in [1..Len(S) -> Range(S)] : SameTexts(T, S)}

\* T, read as numbers, is the only arrangement of S in order, read as numbers.
OnlyOrdered(T, S, R) ==
    /\ \E A \in Arrangements(S) : NoInversion(A, R)
    /\ \A A \in Arrangements(S) : NoInversion(A, R) => Numbers(A) = Numbers(T)

C24_UniqueRepair ==
    \A k \in 1..Len(corrected_updates) :
        LET S == incorrect_updates[k] IN
        (FullAcyclic(S, ordering_rules) /\ DistinctTexts(S) /\ AsPrinted(S)) =>
            /\ corrected_updates[k] \in Arrangements(S)
            /\ OnlyOrdered(corrected_updates[k], S, ordering_rules)

\* Three pages that came in the opposite of their order have been repaired.
C24_Witness ==
    /\ pc = "done" /\ Len(corrected_updates) = 1
    /\ LET S == incorrect_updates[1] IN
           /\ Len(S) = 3 /\ DistinctTexts(S) /\ AsPrinted(S)
           /\ FullAcyclic(S, ordering_rules)
           /\ \A i \in 1..3 : corrected_updates[1][i] = S[4 - i]

\* The statement for every update of different pages, zero-padded ones included.
C24_Original ==
    \A k \in 1..Len(corrected_updates) :
        LET S == incorrect_updates[k] IN
        (FullAcyclic(S, ordering_rules) /\ DistinctTexts(S)) =>
            OnlyOrdered(corrected_updates[k], S, ordering_rules)

(***************************************************************************)
(* C25: on a file where every repair ends, what part 1 returns plus what   *)
(* part 2 returns is the sum of the middles of all updates in their final  *)
(* form (as it is when in order, repaired when not), and the two copies of *)
(* check_rules say the same of every update.  The program that ran gives   *)
(* its sum as result; the other program's sum is the sum of what its       *)
(* functions give for each update.                                         *)
(***************************************************************************)
FinalForm(u) ==
    IF check_rules(u, ordering_rules) THEN u ELSE Repaired(u, ordering_rules)

C25_SumsPartition ==
    pc = "done" =>
        LET part_1 == IF prog = 1 THEN result
                      ELSE Sum([k \in 1..Len(updates) |-> AloneInPart1(updates[k])])
            part_2 == IF prog = 2 THEN result
                      ELSE Sum([k \in 1..Len(updates) |-> AloneInPart2(updates[k])])
        IN  /\ part_1 + part_2 =
                   Sum([k \in 1..Len(updates) |-> ParseInt(Middle(FinalForm(updates[k])))])
            /\ \A k \in 1..Len(updates) :
                   p1_check_rules(updates[k], ordering_rules)
                       = check_rules(updates[k], ordering_rules)

\* Part 1 has returned for a file of an update in order and one that is not.
C25_Witness ==
    /\ prog = 1 /\ pc = "done" /\ Len(updates) = 2
    /\ Len(printed_updates) = 1
    /\ result > 0
    /\ AloneInPart2(updates[1]) + AloneInPart2(updates[2]) > 0

(***************************************************************************)
(* C26: while the patrol loop runs the guard is on a cell of the map that  *)
(* is not an obstacle, and every call of move_guard does exactly one of:   *)
(* one cell forward into a cell that is not an obstacle, with the same     *)
(* direction; a turn to the right on the spot (up, right, down, left, up)  *)
(* when the cell ahead is an obstacle; direction "out" on the spot when    *)
(* the cell ahead is off the map.  The call writes an X on the cell the    *)
(* guard is on and writes no other cell, so no obstacle is overwritten.    *)
(***************************************************************************)
\* The cell one step from (row, column) in the direction facing.
AheadOf(row, column, facing) ==
    CASE facing = "up" -> <<row - 1, column>>
      [] facing = "down" -> <<row + 1, column>>
      [] facing = "left" -> <<row, column - 1>>
      [] facing = "right" -> <<row, column + 1>>

Clockwise(facing) ==
    CASE facing = "up" -> "right"
      [] facing = "right" -> "down"
      [] facing = "down" -> "left"
      [] facing = "left" -> "up"

OnTheMap(cell, room_map) ==
    /\ cell[1] \in 0..(Len(room_map) - 1)
    /\ cell[2] \in 0..(Len(room_map[1]) - 1)

GuardOnFreeCell(d) ==
    d.pc = "while" =>
        /\ OnTheMap(<<d.guard_position[1], d.guard_position[2]>>, d.room_map)
        /\ d.room_map[d.guard_position[1] + 1][d.guard_position[2] + 1] # "#"

OneMoveOfThree ==
    LET before == day06.guard_position
        after == day06'.guard_position
        here == <<before[1], before[2]>>
        ahead == AheadOf(before[1], before[2], before[3])
        forward ==
            /\ OnTheMap(ahead, day06.room_map)
            /\ day06.room_map[ahead[1] + 1][ahead[2] + 1] # "#"
            /\ after = <<ahead[1], ahead[2], before[3]>>
        turn ==
            /\ OnTheMap(ahead, day06.room_map)
            /\ day06.room_map[ahead[1] + 1][ahead[2] + 1] = "#"
            /\ after = <<here[1], here[2], Clockwise(before[3])>>
        out ==
            /\ ~OnTheMap(ahead, day06.room_map)
            /\ after = <<here[1], here[2], "out">>
    IN  /\ day06'.pc = "while"
        /\ Cardinality({which \in {"forward", "turn", "out"} :
                            \/ which = "forward" /\ forward
                            \/ which = "turn" /\ turn
                            \/ which = "out" /\ out}) = 1
        /\ day06'.room_map =
               [day06.room_map EXCEPT ![here[1] + 1][here[2] + 1] = "X"]
        /\ \A r \in 1..Len(day06.room_map), c \in 1..Len(day06.room_map[1]) :
               day06.room_map[r][c] = "#" => day06'.room_map[r][c] = "#"

C26_PatrolStep ==
    [][ /\ GuardOnFreeCell(day06) /\ GuardOnFreeCell(day06')
        /\ (day06.pc = "while" /\ day06.guard_position[3] # "out"
                /\ day06' # day06) => OneMoveOfThree ]_vars

\* The guard has turned before an obstacle and has gone forward: it faces
\* another direction than at the start, on another cell.
C26_Witness ==
    /\ day06.pc = "while"
    /\ day06.guard_position[3] \notin {"out", find_guard_start_position(day06.input)[3]}
    /\ <<day06.guard_position[1], day06.guard_position[2]>> #
           <<find_guard_start_position(day06.input)[1],
             find_guard_start_position(day06.input)[2]>>

(***************************************************************************)
(* C27: the patrol loop does not detect a loop.  What move_guard returns   *)
(* depends on the obstacles and on (row, column, direction) only, not on   *)
(* the X marks; so once guard_position has taken a value it had before,    *)
(* the direction is never "out" and solve never returns; in a run where    *)
(* that never happens solve returns, after at most rows x columns x 4      *)
(* calls of move_guard.                                                    *)
(***************************************************************************)
StepLimit(room_map) == Len(room_map) * Len(room_map[1]) * 4

MarksIgnored ==
    (day06.pc = "while" /\ day06.guard_position[3] # "out") =>
        move_guard(day06.room_map, day06.room_dimensions, day06.guard_position)[2]
            = move_guard(day06.input, day06.room_dimensions, day06.guard_position)[2]

C27_LoopsForeverOrLeaves ==
    /\ [](day06.pc = "while" => MarksIgnored)
    /\ [](day06.pc \in {"while", "returned"} =>
            IF day06.revisited
            THEN day06.pc = "while" /\ day06.guard_position[3] # "out"
            ELSE day06.steps <= StepLimit(day06.input))
    /\ <>(day06.pc = "returned" \/ (day06.pc = "while" /\ day06.revisited))

\* The guard has an obstacle on every side: it has turned on the spot more
\* often than the map has (row, column, direction) triples.
C27_Witness ==
    /\ day06.pc = "while"
    /\ day06.revisited
    /\ day06.steps > StepLimit(day06.input)
    /\ day06.visited = {<<day06.guard_position[1], day06.guard_position[2]>>}

====
